---- MODULE Spec2Model ----
(***************************************************************************)
(* Model of src/vs/editor/contrib/focusOnHover/focusOnHover.ts             *)
(*                                                                         *)
(* FocusOnHoverController: one controller per editor, a static registry    *)
(* (Instances) of live controllers, and one "terminal manager" among them  *)
(* that owns the subscriptions to the terminal service and the per-terminal*)
(* mouse-move hooks.                                                       *)
(*                                                                         *)
(* The host (editor, terminal service) is single threaded: every handler   *)
(* runs to completion, so each handler is one action.                      *)
(*                                                                         *)
(* _terminalHooks is a JavaScript Map object.  The code stores the hooks   *)
(* with the index operator (this._terminalHooks[id] = ...), which creates  *)
(* own properties of the object, and it reads them back with the index     *)
(* operator and with for-in; has(), delete() and clear() work on the Map's *)
(* entries, which only set() could create.  A Map object is therefore      *)
(* modelled by its two parts, entries and props.                           *)
(***************************************************************************)
EXTENDS Integers, Sequences, FiniteSets, TLC

\* Bounds of the model.
MaxControllers == 3
MaxTerminals == 2
MaxHooks == 3

Controllers == 1..MaxControllers
TerminalIds == 1..MaxTerminals

Null == "null"
NoHook == 0

VARIABLES
    Instances,                        \* static Instances: controller ids, in order
    life,                             \* controller -> "unborn" | "live" | "disposed"
    focusOnHover,                     \* controller -> flag of its editor's configuration
    didChangeConfigurationHandler,    \* controller -> "null" | "active" | "disposed"
    editorMouseMoveHandler,           \* controller -> "null" | "active"
    editorMouseMoveListeners,         \* controller -> active listeners on its editor's onMouseMove
    terminalHooks,                    \* controller -> Undefined or a Map object
    terminalInstanceCreatedHandler,   \* controller -> "null" | "active" | "disposed"
    terminalInstanceDisposedHandler,  \* controller -> "null" | "active" | "disposed"
    createdListeners,                 \* controller -> its active listeners on onInstanceCreated
    disposedListeners,                \* controller -> its active listeners on onInstanceDisposed
    terminalInstances,                \* terminal service: open terminals, in order
    nextTerminalId,                   \* terminal service: id of the next terminal
    hooks,                            \* every terminal.onMouseMove subscription ever made
    mouse,                            \* the last step, when it was a mouse move over an editor
    unaffected                        \* the last step was a notification with contribInfo unset

\* The state of the controllers and of the terminal service.
controllerVars ==
    <<Instances, life, focusOnHover, didChangeConfigurationHandler,
      editorMouseMoveHandler, editorMouseMoveListeners, terminalHooks,
      terminalInstanceCreatedHandler, terminalInstanceDisposedHandler,
      createdListeners, disposedListeners, terminalInstances,
      nextTerminalId, hooks>>

vars == <<controllerVars, mouse, unaffected>>

\* No mouse move over an editor was the last step.
NoMove == [over |-> 0, hadFocus |-> FALSE, requested |-> FALSE]

\* The program state as one record, so that a handler is a function from
\* state to state and the calls it makes compose in the order of the code.
Cur ==
    [Instances |-> Instances,
     life |-> life,
     focusOnHover |-> focusOnHover,
     didChangeConfigurationHandler |-> didChangeConfigurationHandler,
     editorMouseMoveHandler |-> editorMouseMoveHandler,
     editorMouseMoveListeners |-> editorMouseMoveListeners,
     terminalHooks |-> terminalHooks,
     terminalInstanceCreatedHandler |-> terminalInstanceCreatedHandler,
     terminalInstanceDisposedHandler |-> terminalInstanceDisposedHandler,
     createdListeners |-> createdListeners,
     disposedListeners |-> disposedListeners,
     terminalInstances |-> terminalInstances,
     nextTerminalId |-> nextTerminalId,
     hooks |-> hooks]

Commit(st) ==
    /\ Len(st.hooks) <= MaxHooks
    /\ Instances' = st.Instances
    /\ life' = st.life
    /\ focusOnHover' = st.focusOnHover
    /\ didChangeConfigurationHandler' = st.didChangeConfigurationHandler
    /\ editorMouseMoveHandler' = st.editorMouseMoveHandler
    /\ editorMouseMoveListeners' = st.editorMouseMoveListeners
    /\ terminalHooks' = st.terminalHooks
    /\ terminalInstanceCreatedHandler' = st.terminalInstanceCreatedHandler
    /\ terminalInstanceDisposedHandler' = st.terminalInstanceDisposedHandler
    /\ createdListeners' = st.createdListeners
    /\ disposedListeners' = st.disposedListeners
    /\ terminalInstances' = st.terminalInstances
    /\ nextTerminalId' = st.nextTerminalId
    /\ hooks' = st.hooks
    /\ mouse' = NoMove
    /\ unaffected' = FALSE

----------------------------------------------------------------------------
\* JavaScript objects used by the controller.

\* new Map(): no entries, no own properties.
NewMap == [defined |-> TRUE, entries |-> {}, props |-> [t \in TerminalIds |-> NoHook]]

\* The value of a _terminalHooks field that was never assigned.
Undefined == [defined |-> FALSE, entries |-> {}, props |-> [t \in TerminalIds |-> NoHook]]

\* map[k] = v : defines an own property; the Map's entries are untouched.
PropSet(m, k, v) == [m EXCEPT !.props[k] = v]

\* for (const k in map): the own enumerable properties.
PropKeys(m) == {k \in TerminalIds : m.props[k] # NoHook}

\* The subscriptions a for-in loop over the object reaches.
PropHooks(m) == {m.props[k] : k \in PropKeys(m)}

\* map.has(k), map.delete(k), map.clear(): the Map's entries only.
MapHas(m, k) == k \in m.entries
MapDelete(m, k) == [m EXCEPT !.entries = @ \ {k}]
MapClear(m) == [m EXCEPT !.entries = {}]

\* dispose() of a handler field that leaves the listener in place.
Released_Kept(h, n) == n

\* IDisposable.dispose() of a handler field: the listener goes away once.
DisposedHandler(h) == IF h = "active" THEN "disposed" ELSE h
Released(h, n) == IF h = "active" THEN n - 1 ELSE n

\* terminal.onMouseMove(t => t.focus()): a new subscription; its id is its
\* position in hooks.
NewHook(t) == [terminal |-> t, status |-> "active"]

\* hook.dispose(); a second call is remembered as such.
DisposedHook(h) ==
    [h EXCEPT !.status = IF @ = "active" THEN "disposed" ELSE "disposedAgain"]

DisposeHooks(hk, ids) ==
    [i \in DOMAIN hk |-> IF i \in ids THEN DisposedHook(hk[i]) ELSE hk[i]]

\* indexOf taken to be 1-based: splice then removes the wrong element.
IndexOf_OneBased(arr, x) ==
    IF \E i \in 1..Len(arr) : arr[i] = x
    THEN CHOOSE i \in 1..Len(arr) :
             /\ arr[i] = x
             /\ \A j \in 1..(i - 1) : arr[j] # x
    ELSE -1

\* Array.prototype.indexOf: 0-based, -1 when absent.
IndexOf(arr, x) ==
    IF \E i \in 1..Len(arr) : arr[i] = x
    THEN (CHOOSE i \in 1..Len(arr) :
              /\ arr[i] = x
              /\ \A j \in 1..(i - 1) : arr[j] # x) - 1
    ELSE -1

\* Array.prototype.splice(start, 1): a negative start counts from the end.
Splice(arr, start) ==
    LET n == Len(arr)
        s == IF start < 0
             THEN (IF n + start < 0 THEN 0 ELSE n + start)
             ELSE (IF start > n THEN n ELSE start)
    IN  [i \in 1..(IF s < n THEN n - 1 ELSE n) |->
            IF i <= s THEN arr[i] ELSE arr[i + 1]]

----------------------------------------------------------------------------
\* FocusOnHoverController

\* get _manageTerminals(): the created-handler field is set.
ManageTerminals(st, c) == st.terminalInstanceCreatedHandler[c] # Null

\* _handleTerminals(): two new listeners on the terminal service; whatever
\* the two fields referred to before is overwritten, not disposed.
HandleTerminals(st, c) ==
    [st EXCEPT !.terminalInstanceCreatedHandler[c] = "active",
               !.createdListeners[c] = @ + 1,
               !.terminalInstanceDisposedHandler[c] = "active",
               !.disposedListeners[c] = @ + 1]

\* The flag is taken to be on whatever the configuration says.
FlagEnabled_Always(st, c) == TRUE

\* this._editor.getConfiguration().contribInfo.focusOnHover
FlagEnabled(st, c) == st.focusOnHover[c]

\* _onTerminalCreated without the test of the flag.
OnTerminalCreated_Always(st, c, t) ==
    IF st.terminalHooks[c].defined
    THEN [st EXCEPT !.hooks = Append(@, [terminal |-> t, status |-> "active"]),
                    !.terminalHooks[c] = [@ EXCEPT !.props[t] = Len(st.hooks) + 1]]
    ELSE st

\* _onTerminalCreated(terminal)
OnTerminalCreated(st, c, t) ==
    IF FlagEnabled(st, c) /\ st.terminalHooks[c].defined
    THEN [st EXCEPT !.hooks = Append(@, NewHook(t)),
                    !.terminalHooks[c] = PropSet(@, t, Len(st.hooks) + 1)]
    ELSE st

\* _onTerminalDisposed(terminal)
OnTerminalDisposed(st, c, t) ==
    IF st.terminalHooks[c].defined /\ MapHas(st.terminalHooks[c], t)
    THEN [st EXCEPT !.hooks = DisposeHooks(@, {st.terminalHooks[c].props[t]}),
                    !.terminalHooks[c] = MapDelete(@, t)]
    ELSE st

\* The loop of _hookEvents over this._terminals.terminalInstances: one new
\* subscription per open terminal, stored under the terminal's id.
HookTerminals(st, c) ==
    LET ts == st.terminalInstances
        base == Len(st.hooks)
        PosOf(t) == CHOOSE i \in 1..Len(ts) : ts[i] = t
    IN  IF ~st.terminalHooks[c].defined
        THEN st
        ELSE [st EXCEPT
                !.hooks = @ \o [i \in 1..Len(ts) |-> NewHook(ts[i])],
                !.terminalHooks[c].props =
                    [t \in TerminalIds |->
                        IF \E i \in 1..Len(ts) : ts[i] = t
                        THEN base + PosOf(t)
                        ELSE @[t]]]

\* _hookEvents()
HookEvents(st, c) ==
    IF FlagEnabled(st, c)
    THEN LET s1 == [st EXCEPT !.editorMouseMoveHandler[c] = "active",
                              !.editorMouseMoveListeners[c] = @ + 1]
         IN  IF ManageTerminals(s1, c) THEN HookTerminals(s1, c) ELSE s1
    ELSE st

\* The body of "if (this._manageTerminals)" in _unhookEvents, and the else
\* branch of dispose: dispose what for-in reaches, then clear().
DisposeAllTerminalHooks(st, c) ==
    IF ~st.terminalHooks[c].defined
    THEN st
    ELSE [st EXCEPT !.hooks = DisposeHooks(@, PropHooks(st.terminalHooks[c])),
                    !.terminalHooks[c] = MapClear(@)]

\* _unhookEvents()
UnhookEvents(st, c) ==
    IF st.editorMouseMoveHandler[c] # Null
    THEN LET s1 == [st EXCEPT !.editorMouseMoveHandler[c] = Null,
                              !.editorMouseMoveListeners[c] = @ - 1]
         IN  IF ManageTerminals(s1, c) THEN DisposeAllTerminalHooks(s1, c) ELSE s1
    ELSE st

\* The handler re-hooks on every notification.
OnDidChangeConfiguration_Always(st, c, contribInfo) ==
    HookEvents(UnhookEvents(st, c), c)

\* The listener registered in the constructor on onDidChangeConfiguration.
OnDidChangeConfiguration(st, c, contribInfo) ==
    IF contribInfo THEN HookEvents(UnhookEvents(st, c), c) ELSE st

\* Every new controller takes the terminals, whatever the registry holds.
NoExistingController_Always(insts) == TRUE

\* constructor: "if (FocusOnHoverController.Instances.length === 0)"
NoExistingController(insts) == Len(insts) = 0

\* constructor(_editor, _terminals); flag is the editor's configuration at
\* that moment.
Constructor(st, c, flag) ==
    LET s0 == [st EXCEPT !.life[c] = "live",
                         !.focusOnHover[c] = flag,
                         !.didChangeConfigurationHandler[c] = "active"]
        s1 == IF NoExistingController(s0.Instances)
              THEN HandleTerminals([s0 EXCEPT !.terminalHooks[c] = NewMap], c)
              ELSE s0
        s2 == HookEvents(s1, c)
    IN  [s2 EXCEPT !.Instances = Append(@, c)]

\* The ownership is given away only when two or more instances remain.
CanGiveOwnership_MoreThanOne(insts) == Len(insts) > 1

\* dispose: "if (FocusOnHoverController.Instances.length > 0)"
CanGiveOwnership(insts) == Len(insts) > 0

\* The newest instance is chosen instead of the first.
OtherInstance_Last(insts) == insts[Len(insts)]

\* dispose: "const otherInstance = FocusOnHoverController.Instances[0]"
OtherInstance(insts) == insts[1]

\* this._terminalHooks is not replaced after the mapping was given away.
HooksAfterHandoff_Kept(m) == m

\* dispose: what this._terminalHooks is after the mapping m was given away.
HooksAfterHandoff(m) == NewMap

\* dispose: the branch that gives the terminals to another instance.
GiveOwnership(st, c) ==
    LET other == OtherInstance(st.Instances)
        s1 == [st EXCEPT !.terminalHooks[other] = st.terminalHooks[c]]
        s2 == HandleTerminals(s1, other)
    IN  [s2 EXCEPT !.terminalHooks[c] = HooksAfterHandoff(st.terminalHooks[c])]

\* dispose()
DisposeController(st, c) ==
    LET s0 == [st EXCEPT !.didChangeConfigurationHandler[c] = DisposedHandler(@),
                         !.life[c] = "disposed"]
        idx == IndexOf(s0.Instances, c)
        s1 == [s0 EXCEPT !.Instances = Splice(@, idx)]
        s2 == IF s1.terminalInstanceCreatedHandler[c] # Null
              THEN LET h == [s1 EXCEPT
                              !.createdListeners[c] =
                                  Released(s1.terminalInstanceCreatedHandler[c], @),
                              !.terminalInstanceCreatedHandler[c] = DisposedHandler(@),
                              !.disposedListeners[c] =
                                  Released(s1.terminalInstanceDisposedHandler[c], @),
                              !.terminalInstanceDisposedHandler[c] = DisposedHandler(@)]
                   IN  IF CanGiveOwnership(h.Instances)
                       THEN GiveOwnership(h, c)
                       ELSE DisposeAllTerminalHooks(h, c)
              ELSE s1
    IN  UnhookEvents(s2, c)

----------------------------------------------------------------------------
\* The terminal service delivers an event to every active listener; the
\* listeners of controller c call c's handler.
RECURSIVE FireCreated(_, _, _, _)
FireCreated(st, c, k, t) ==
    IF c > MaxControllers THEN st
    ELSE IF k >= st.createdListeners[c] THEN FireCreated(st, c + 1, 0, t)
    ELSE FireCreated(OnTerminalCreated(st, c, t), c, k + 1, t)

RECURSIVE FireDisposed(_, _, _, _)
FireDisposed(st, c, k, t) ==
    IF c > MaxControllers THEN st
    ELSE IF k >= st.disposedListeners[c] THEN FireDisposed(st, c + 1, 0, t)
    ELSE FireDisposed(OnTerminalDisposed(st, c, t), c, k + 1, t)

RemoveTerminal(ts, t) == SelectSeq(ts, LAMBDA x : x # t)

\* Every controller constructed so far; a new controller is the next id.
Constructed == {c \in Controllers : life[c] # "unborn"}

\* The controllers constructed and not yet disposed.
Live == {c \in Controllers : life[c] = "live"}

----------------------------------------------------------------------------
\* Actions: one per handler the host can invoke.

Init ==
    /\ Instances = << >>
    /\ life = [c \in Controllers |-> "unborn"]
    /\ focusOnHover = [c \in Controllers |-> FALSE]
    /\ didChangeConfigurationHandler = [c \in Controllers |-> Null]
    /\ editorMouseMoveHandler = [c \in Controllers |-> Null]
    /\ editorMouseMoveListeners = [c \in Controllers |-> 0]
    /\ terminalHooks = [c \in Controllers |-> Undefined]
    /\ terminalInstanceCreatedHandler = [c \in Controllers |-> Null]
    /\ terminalInstanceDisposedHandler = [c \in Controllers |-> Null]
    /\ createdListeners = [c \in Controllers |-> 0]
    /\ disposedListeners = [c \in Controllers |-> 0]
    /\ terminalInstances = << >>
    /\ nextTerminalId = 1
    /\ hooks = << >>
    /\ mouse = NoMove
    /\ unaffected = FALSE

\* The registration mechanism instantiates a controller for a new editor.
Construct ==
    \E flag \in BOOLEAN :
        LET c == Cardinality(Constructed) + 1
        IN  /\ c \in Controllers
            /\ Commit(Constructor(Cur, c, flag))

\* The editor of a live controller c changes its configuration and fires
\* onDidChangeConfiguration (a controller is disposed when its editor is torn
\* down); the flag belongs to the contribInfo group, so a change of the flag
\* always comes with e.contribInfo set.
ConfigurationChanged ==
    \E c \in Live, flag \in BOOLEAN, contribInfo \in BOOLEAN :
        /\ flag # focusOnHover[c] => contribInfo
        /\ LET s0 == [Cur EXCEPT !.focusOnHover[c] = flag]
               s1 == IF didChangeConfigurationHandler[c] = "active"
                     THEN OnDidChangeConfiguration(s0, c, contribInfo)
                     ELSE s0
           IN  Commit(s1)

\* The terminal service opens a terminal and fires onInstanceCreated.
TerminalCreated ==
    LET t == nextTerminalId
    IN  /\ t \in TerminalIds
        /\ LET s0 == [Cur EXCEPT !.terminalInstances = Append(@, t),
                                 !.nextTerminalId = @ + 1]
           IN  Commit(FireCreated(s0, 1, 0, t))

\* The terminal service closes a terminal and fires onInstanceDisposed.
TerminalDisposed ==
    \E i \in 1..Len(terminalInstances) :
        LET t == terminalInstances[i]
            s0 == [Cur EXCEPT !.terminalInstances = RemoveTerminal(@, t)]
        IN  Commit(FireDisposed(s0, 1, 0, t))

\* The registration mechanism disposes a live controller.
Dispose ==
    \E c \in Controllers :
        /\ life[c] = "live"
        /\ Commit(DisposeController(Cur, c))

Next ==
    \/ Construct
    \/ ConfigurationChanged
    \/ TerminalCreated
    \/ TerminalDisposed
    \/ Dispose

Spec == Init /\ [][Next]_vars

----------------------------------------------------------------------------
\* Mouse moves over the editors.

\* The handler calls focus() whatever hasTextFocus() answers.
OnEditorMouseMove_Always(hasTextFocus) == TRUE

\* _onEditorMouseMove(): whether this._editor.focus() is called, given the
\* answer of this._editor.hasTextFocus().
OnEditorMouseMove(hasTextFocus) == ~hasTextFocus

\* The editor of controller c fires onMouseMove: the listener made by
\* _hookEvents, if it is still there, calls _onEditorMouseMove.
FireEditorMouseMove(st, c, hasTextFocus) ==
    st.editorMouseMoveListeners[c] > 0 /\ OnEditorMouseMove(hasTextFocus)

\* The mouse moves over the editor of a controller, live or disposed; the
\* editor has the text focus or not.
EditorMouseMove ==
    \E c \in Constructed, hasTextFocus \in BOOLEAN :
        /\ mouse' = [over |-> c,
                     hadFocus |-> hasTextFocus,
                     requested |-> FireEditorMouseMove(Cur, c, hasTextFocus)]
        /\ UNCHANGED <<controllerVars, unaffected>>

\* The controllers and their editors alone: the terminals take no part in
\* what a mouse move over an editor does.
NextFocus ==
    \/ Construct
    \/ ConfigurationChanged
    \/ Dispose
    \/ EditorMouseMove

SpecFocus == Init /\ [][NextFocus]_vars

----------------------------------------------------------------------------
\* Notifications that leave the contribInfo group alone, told apart from the
\* other steps.

\* The editor of a live controller fires onDidChangeConfiguration for a
\* change outside the contribInfo group: the flag is as before and the
\* listener of the constructor runs with e.contribInfo unset.
ConfigurationUnaffected ==
    \E c \in Live :
        /\ didChangeConfigurationHandler[c] = "active"
        /\ LET st == OnDidChangeConfiguration(Cur, c, FALSE)
           IN  /\ Len(st.hooks) <= MaxHooks
               /\ Instances' = st.Instances
               /\ life' = st.life
               /\ focusOnHover' = st.focusOnHover
               /\ didChangeConfigurationHandler' = st.didChangeConfigurationHandler
               /\ editorMouseMoveHandler' = st.editorMouseMoveHandler
               /\ editorMouseMoveListeners' = st.editorMouseMoveListeners
               /\ terminalHooks' = st.terminalHooks
               /\ terminalInstanceCreatedHandler' = st.terminalInstanceCreatedHandler
               /\ terminalInstanceDisposedHandler' = st.terminalInstanceDisposedHandler
               /\ createdListeners' = st.createdListeners
               /\ disposedListeners' = st.disposedListeners
               /\ terminalInstances' = st.terminalInstances
               /\ nextTerminalId' = st.nextTerminalId
               /\ hooks' = st.hooks
        /\ mouse' = NoMove
        /\ unaffected' = TRUE

NextNotify ==
    \/ Construct
    \/ ConfigurationChanged
    \/ TerminalCreated
    \/ TerminalDisposed
    \/ Dispose
    \/ ConfigurationUnaffected

SpecNotify == Init /\ [][NextNotify]_vars

----------------------------------------------------------------------------
\* Vocabulary of the properties.

\* c has the terminal-manager role: it has listeners on the terminal
\* service's created and disposed events.
HoldsRole(c) == createdListeners[c] > 0 /\ disposedListeners[c] > 0

\* Every controller with any listener on the terminal service.
Subscribers == {c \in Controllers : createdListeners[c] > 0 \/ disposedListeners[c] > 0}

\* The terminal-hook mapping of c: terminal id -> hook (NoHook when absent).
Mapping(c) == terminalHooks[c].props

\* The subscriptions made on terminal t, and the ones not yet disposed.
HooksOf(t) == {h \in DOMAIN hooks : hooks[h].terminal = t}
ActiveHooks == {h \in DOMAIN hooks : hooks[h].status = "active"}

OpenTerminals == {terminalInstances[i] : i \in DOMAIN terminalInstances}

\* Everything that belongs to the terminal manager.
terminalSide == <<createdListeners, disposedListeners,
                  terminalInstanceCreatedHandler, terminalInstanceDisposedHandler,
                  terminalHooks, hooks, terminalInstances>>

\* The steps, told apart by what only they change.
ConstructStep(c) == life[c] = "unborn" /\ life'[c] = "live"
DisposeStep(c) == life[c] = "live" /\ life'[c] = "disposed"
TerminalCreatedStep(t) == nextTerminalId = t /\ nextTerminalId' = t + 1
TerminalDisposedStep(t) == t \in OpenTerminals /\ t \notin OpenTerminals'
ConfigurationStep ==
    /\ life' = life
    /\ nextTerminalId' = nextTerminalId
    /\ terminalInstances' = terminalInstances

\* A configuration step that is seen to be about controller c.
ConfigurationStepOf(c) ==
    /\ ConfigurationStep
    /\ \/ focusOnHover'[c] # focusOnHover[c]
       \/ editorMouseMoveHandler'[c] # editorMouseMoveHandler[c]

\* This step is dispose() of the terminal manager c.
ManagerDisposed(c) == DisposeStep(c) /\ HoldsRole(c)

\* d was the terminal manager and has been disposed.
FormerManager(d) ==
    life[d] = "disposed" /\ terminalInstanceCreatedHandler[d] = "disposed"

\* m holds a hook that is not disposed in its mapping.
HoldsActiveHook(m) == \E t \in TerminalIds : Mapping(m)[t] \in ActiveHooks

----------------------------------------------------------------------------
\* C1: whenever at least one controller is live, exactly one controller has
\* listeners on the terminal service's created/disposed events, it is live
\* and it has one listener of each kind; when no controller is live, none
\* has such a listener.
C1_ExactlyOneManager ==
    /\ \A c \in Subscribers :
        /\ life[c] = "live"
        /\ createdListeners[c] = 1
        /\ disposedListeners[c] = 1
    /\ Live # {} => Cardinality(Subscribers) = 1
    /\ Live = {} => Subscribers = {}

\* A manager has been disposed, two controllers are live and one of them
\* holds the role.
C1_Witness ==
    /\ \E d \in Controllers : FormerManager(d)
    /\ Cardinality(Live) = 2
    /\ \E m \in Live : HoldsRole(m)

\* C2: when the manager c is disposed while another controller is live, the
\* new manager's mapping after the step is c's mapping before it (same
\* terminal ids, same subscriptions), no subscription is created and none
\* changes its status during the step.
C2_HandoffKeepsHooks ==
    [][\A c \in Controllers :
        (ManagerDisposed(c) /\ Live \ {c} # {}) =>
            /\ \E m \in Live \ {c} :
                /\ HoldsRole(m)'
                /\ Mapping(m)' = Mapping(c)
            /\ hooks' = hooks]_vars

\* A manager whose flag was on has been disposed, and the manager now is a
\* controller that never made a terminal hook itself (its flag is off and it
\* has no editor hook) and yet holds an undisposed one: the hook came with
\* the handoff.
C2_Witness ==
    /\ \E d \in Controllers : FormerManager(d) /\ focusOnHover[d]
    /\ \E m \in Live :
        /\ HoldsRole(m)
        /\ ~focusOnHover[m]
        /\ editorMouseMoveHandler[m] = Null
        /\ HoldsActiveHook(m)

\* C3: when the manager is disposed as the last live controller, every hook
\* of its mapping is disposed and its mapping is empty afterwards.
C3_LastDisposeEmptiesMapping ==
    [][\A c \in Controllers :
        (ManagerDisposed(c) /\ Live = {c}) =>
            /\ \A h \in PropHooks(terminalHooks[c]) : h \notin ActiveHooks'
            /\ PropKeys(terminalHooks[c])' = {}]_vars

\* C4: the registry holds exactly the live controllers, each once, in the
\* order of their construction (controllers are numbered as constructed).
C4_RegistryMirrorsLive ==
    /\ {Instances[i] : i \in DOMAIN Instances} = Live
    /\ Len(Instances) = Cardinality(Live)
    /\ \A i, j \in DOMAIN Instances : i < j => Instances[i] < Instances[j]

\* A controller constructed between two others has been disposed.
C4_Witness ==
    /\ life[2] = "disposed"
    /\ Instances = <<1, 3>>

\* C5: a delivered change that turns the manager's flag off leaves it with
\* no editor mouse-move listener and leaves no terminal hook active; a
\* delivered change that turns it on again from there gives it an editor
\* mouse-move listener and leaves active hooks on exactly the open terminals.
C5_ToggleOffOn ==
    [][\A c \in Controllers :
        (ConfigurationStepOf(c) /\ HoldsRole(c)) =>
            /\ (focusOnHover[c] /\ ~focusOnHover'[c]) =>
                /\ editorMouseMoveListeners'[c] = 0
                /\ ActiveHooks' = {}
            /\ (~focusOnHover[c] /\ focusOnHover'[c]
                    /\ editorMouseMoveListeners[c] = 0 /\ ActiveHooks = {}) =>
                /\ editorMouseMoveListeners'[c] = 1
                /\ {hooks'[h].terminal : h \in ActiveHooks'} = OpenTerminals']_vars

\* C6: when the manager handles terminal-disposed for a terminal with a hook
\* in its mapping, the hook is disposed and the entry is gone; without a
\* hook the event changes neither the mappings nor the hooks.
C6_TerminalDisposedRemovesHook ==
    [][\A m \in Controllers, t \in TerminalIds :
        (TerminalDisposedStep(t) /\ HoldsRole(m)) =>
            LET h == Mapping(m)[t]
            IN  IF h # NoHook
                THEN h \notin ActiveHooks' /\ Mapping(m)'[t] = NoHook
                ELSE terminalHooks' = terminalHooks /\ hooks' = hooks]_vars

\* C7: a terminal-created event makes a hook for the new terminal exactly
\* when a manager exists and its flag is on; and whenever any step makes a
\* hook for a terminal, the manager's flag is on after that step, so a
\* terminal created under a flag that is off stays without a hook while the
\* flag stays off.
C7_CreatedHookIffFlag ==
    [][\A t \in TerminalIds :
        /\ TerminalCreatedStep(t) =>
            (HooksOf(t)' # {} <=>
                \E m \in Controllers : HoldsRole(m) /\ focusOnHover[m])
        /\ HooksOf(t)' # HooksOf(t) =>
            \E m \in Controllers : HoldsRole(m)' /\ focusOnHover'[m]]_vars

\* The only controller ever constructed is live with its flag off; an open
\* terminal has never had a hook while another terminal has had one: the
\* flag was on, was turned off, and the terminal was created after that.
C7_Witness ==
    /\ Constructed = {1}
    /\ HoldsRole(1)
    /\ ~focusOnHover[1]
    /\ \E t \in OpenTerminals : HooksOf(t) = {}
    /\ \E t \in TerminalIds : HooksOf(t) # {}

\* C8: constructing a controller while another is live, a configuration
\* change on a controller that is not the manager, and disposing such a
\* controller leave the manager, its listeners, the mappings, the hooks and
\* the terminals as they were, and leave the editor listeners of every other
\* controller as they were.
C8_NonManagerFrame ==
    [][\A c \in Controllers :
        (\/ ConstructStep(c) /\ Live # {}
         \/ ConfigurationStepOf(c) /\ ~HoldsRole(c)
         \/ DisposeStep(c) /\ ~HoldsRole(c)) =>
            /\ UNCHANGED terminalSide
            /\ \A d \in Controllers \ {c} :
                /\ editorMouseMoveHandler'[d] = editorMouseMoveHandler[d]
                /\ editorMouseMoveListeners'[d] = editorMouseMoveListeners[d]]_vars

\* A controller that never was manager has been disposed with its flag on,
\* while the manager holds an undisposed hook.
C8_Witness ==
    /\ \E d \in Controllers :
        /\ life[d] = "disposed"
        /\ terminalInstanceCreatedHandler[d] = Null
        /\ focusOnHover[d]
    /\ \E m \in Live : HoldsRole(m) /\ HoldsActiveHook(m)

\* C9: once every constructed controller is disposed, the registry is empty
\* and no listener made by a controller is active: no configuration
\* listener, no editor mouse-move listener, no terminal-service listener and
\* no terminal hook.
C9_AllDisposedNothingActive ==
    (Constructed # {} /\ Live = {}) =>
        /\ Instances = << >>
        /\ \A c \in Controllers :
            /\ didChangeConfigurationHandler[c] # "active"
            /\ editorMouseMoveListeners[c] = 0
            /\ createdListeners[c] = 0
            /\ disposedListeners[c] = 0
        /\ ActiveHooks = {}

\* C10: when the manager is disposed while others are live, the new manager
\* is the first of the registry after the removal, which is the oldest
\* controller still live.
C10_HandoffToOldest ==
    [][\A c \in Controllers :
        (ManagerDisposed(c) /\ Live \ {c} # {}) =>
            /\ HoldsRole(Instances[1])'
            /\ \A d \in Live' : Instances'[1] <= d]_vars

\* The first controller has been disposed as manager while the second and
\* the third were live, and the second holds the role.
C10_Witness ==
    /\ FormerManager(1)
    /\ Instances = <<2, 3>>
    /\ HoldsRole(2)

\* C11: hook deactivation run on the terminal manager from any reachable
\* state, with or without an editor mouse-move handler, disposes every hook
\* of the mapping and leaves the mapping empty, and the manager keeps its
\* role and its listeners on the terminal service.
C11_UnhookClearsTerminalHooks ==
    \A m \in Live :
        HoldsRole(m) =>
            LET s == UnhookEvents(Cur, m)
            IN  /\ \A h \in PropHooks(terminalHooks[m]) : s.hooks[h].status # "active"
                /\ PropKeys(s.terminalHooks[m]) = {}
                /\ ManageTerminals(s, m)
                /\ s.createdListeners[m] > 0
                /\ s.disposedListeners[m] > 0

\* C12: a live controller has exactly one editor mouse-move listener, held
\* by its handler field, when the flag of its editor is on, and none when it
\* is off; a disposed controller has none.
C12_EditorHookFollowsFlag ==
    \A c \in Controllers :
        /\ life[c] = "live" =>
            /\ editorMouseMoveListeners[c] = (IF focusOnHover[c] THEN 1 ELSE 0)
            /\ editorMouseMoveHandler[c] = (IF focusOnHover[c] THEN "active" ELSE Null)
        /\ life[c] = "disposed" =>
            /\ editorMouseMoveListeners[c] = 0
            /\ editorMouseMoveHandler[c] = Null

\* Three controllers: one live with the flag on, one live with the flag off
\* although it is the manager of hooks made under a flag that was on, and
\* one disposed whose flag was on.
C12_Witness ==
    /\ \E c \in Live : focusOnHover[c] /\ editorMouseMoveListeners[c] = 1
    /\ \E c \in Live : ~focusOnHover[c] /\ HoldsRole(c) /\ Len(hooks) > 0
    /\ \E d \in Controllers : life[d] = "disposed" /\ focusOnHover[d]

\* C13: a mouse move over an editor calls focus() on it exactly when its
\* controller is live and has an editor mouse-move listener (so its flag is
\* on) and the editor did not have the text focus.
C13_FocusOnEditorMove ==
    mouse.over # 0 =>
        (mouse.requested <=>
            /\ life[mouse.over] = "live"
            /\ editorMouseMoveListeners[mouse.over] > 0
            /\ focusOnHover[mouse.over]
            /\ ~mouse.hadFocus)

\* The mouse moved over an editor without focus and focus was requested,
\* while another controller is disposed with its flag left on.
C13_Witness ==
    /\ mouse.over # 0
    /\ mouse.requested
    /\ \E d \in Controllers : life[d] = "disposed" /\ focusOnHover[d]

\* C14: a notification that leaves the contribInfo group alone changes
\* nothing of the controllers, their listeners, the mappings, the hooks and
\* the registry.
C14_UnaffectedNotificationChangesNothing ==
    [][unaffected' => UNCHANGED controllerVars]_vars

\* Such a notification was just delivered to the manager while its flag is
\* on, it holds an undisposed hook and a terminal is open: an unhook and
\* re-hook would have replaced the hook.
C14_Witness ==
    /\ unaffected
    /\ \E m \in Live :
        /\ HoldsRole(m)
        /\ focusOnHover[m]
        /\ HoldsActiveHook(m)
    /\ OpenTerminals # {}
    /\ Len(hooks) + Len(terminalInstances) <= MaxHooks

\* C15: every terminal has at most one hook that is not disposed.
C15_AtMostOneActiveHook ==
    \A t \in TerminalIds : Cardinality(HooksOf(t) \cap ActiveHooks) <= 1

\* C16: while the flag of the terminal manager's editor is off, no terminal
\* hook is active (configuration changes are delivered at once, so none is
\* ever pending).
C16_NoActiveHookWhileFlagOff ==
    \A m \in Controllers :
        (HoldsRole(m) /\ ~focusOnHover[m]) => ActiveHooks = {}

\* The listeners on the terminal service, one element per listener.
CreatedSubscriptions ==
    {<<c, k>> \in Controllers \X (1..MaxControllers) : k <= createdListeners[c]}
DisposedSubscriptions ==
    {<<c, k>> \in Controllers \X (1..MaxControllers) : k <= disposedListeners[c]}

\* C17: there is one listener on terminal-created and one on
\* terminal-disposed when a controller is live and none otherwise; both
\* belong to one live controller, whose handler fields refer to them; a
\* disposed controller has no listener left, so it handles no terminal event.
C17_OneSubscriptionPair ==
    /\ Cardinality(CreatedSubscriptions) = (IF Live # {} THEN 1 ELSE 0)
    /\ Cardinality(DisposedSubscriptions) = (IF Live # {} THEN 1 ELSE 0)
    /\ \A c \in Controllers :
        /\ createdListeners[c] <= MaxControllers
        /\ disposedListeners[c] <= MaxControllers
        /\ createdListeners[c] = disposedListeners[c]
        /\ createdListeners[c] > 0 =>
            /\ life[c] = "live"
            /\ terminalInstanceCreatedHandler[c] = "active"
            /\ terminalInstanceDisposedHandler[c] = "active"
        /\ life[c] # "live" =>
            /\ createdListeners[c] = 0
            /\ terminalInstanceCreatedHandler[c] # "active"
            /\ terminalInstanceDisposedHandler[c] # "active"

\* The role went from the first controller to the second and from the
\* second to the third.
C17_Witness ==
    /\ FormerManager(1)
    /\ FormerManager(2)
    /\ HoldsRole(3)

\* C18: dispose() called on a controller that is already disposed, from any
\* reachable state, leaves the registry, the listeners on the terminal
\* service, the handler fields, the mappings of the other controllers, the
\* editor listeners and the hooks as they are.
C18_DisposeTwiceChangesNothing ==
    \A d \in Controllers :
        life[d] = "disposed" =>
            LET s == DisposeController(Cur, d)
            IN  /\ s.Instances = Instances
                /\ s.createdListeners = createdListeners
                /\ s.disposedListeners = disposedListeners
                /\ s.terminalInstanceCreatedHandler = terminalInstanceCreatedHandler
                /\ s.terminalInstanceDisposedHandler = terminalInstanceDisposedHandler
                /\ \A c \in Live : s.terminalHooks[c] = terminalHooks[c]
                /\ s.editorMouseMoveListeners = editorMouseMoveListeners
                /\ s.didChangeConfigurationHandler = didChangeConfigurationHandler
                /\ s.hooks = hooks

\* C19: no terminal hook is disposed a second time.
C19_HookDisposedAtMostOnce ==
    \A h \in DOMAIN hooks : hooks[h].status # "disposedAgain"

====
